---------------------------- MODULE Spec2Model ----------------------------
(***************************************************************************)
(* A model of the server-side request handler of react-router              *)
(* (packages/react-router/lib/server-runtime/server.ts).                   *)
(*                                                                         *)
(* createRequestHandler(build, mode) returns requestHandler; one request   *)
(* is handled at a time here, step by step, each step being a piece of     *)
(* requestHandler between two of its suspension points.  Strings that the  *)
(* code takes apart (URL paths) are sequences of tokens: "/" is a token,   *)
(* a path segment is a token, and the `.data` suffix is a token.           *)
(***************************************************************************)
EXTENDS Integers, Sequences, FiniteSets, TLC

\* ------------------------------------------------------------------ bounds

\* The largest number of `p` parameters in a manifest query.
MaxPaths == 2

\* The most calls of requestHandler that overlap.
MaxRequests == 2

\* The most suspension points a call of requestHandler resumes from after
\* it has its build.
MaxSuspensions == 2

\* ---------------------------------------------------------------- strings

EndsWith(s, tok) == Len(s) > 0 /\ s[Len(s)] = tok

StartsWith(s, tok) == Len(s) > 0 /\ s[1] = tok

IsPrefix(b, s) == Len(b) <= Len(s) /\ SubSeq(s, 1, Len(b)) = b

\* String.prototype.split("/"): the pieces between the "/" tokens, empty
\* pieces included ("/a/" gives "", "a", "").
RECURSIVE SplitSlash(_)
SplitSlash(s) ==
  IF s = <<>> THEN << <<>> >>
  ELSE LET rest == SplitSlash(Tail(s)) IN
       IF Head(s) = "/" THEN << <<>> >> \o rest
       ELSE << <<Head(s)>> \o Head(rest) >> \o Tail(rest)

\* Array.prototype.join("/").
RECURSIVE JoinSlash(_)
JoinSlash(parts) ==
  IF parts = <<>> THEN <<>>
  ELSE IF Len(parts) = 1 THEN parts[1]
  ELSE parts[1] \o <<"/">> \o JoinSlash(Tail(parts))

\* s.replace(/\/+/g, "/"): runs of "/" collapse to one.
RECURSIVE CollapseSlashes(_)
CollapseSlashes(s) ==
  IF Len(s) < 2 THEN s
  ELSE IF s[1] = "/" /\ s[2] = "/" THEN CollapseSlashes(Tail(s))
  ELSE <<s[1]>> \o CollapseSlashes(Tail(s))

\* The absent path (null).
NullPath == <<>>

\* decodeURI on one token: a percent-escape becomes the character it encodes.
DecodeToken(t) == IF t = "%62" THEN "b" ELSE t

DecodeURI(s) == [i \in 1..Len(s) |-> DecodeToken(s[i])]

\* ------------------------------------------------------- collaborators' data

ServerModes == {"production", "development", "test"}

\* isServerMode(mode)
IsServerMode(m) == m \in ServerModes

\* SINGLE_FETCH_REDIRECT_STATUS
SINGLE_FETCH_REDIRECT_STATUS == 202

\* SERVER_NO_BODY_STATUS_CODES
SERVER_NO_BODY_STATUS_CODES == {100, 101, 204, 304}

NoBody == [kind |-> "empty", text |-> <<>>, ids |-> {}]

TextBody(t) == [kind |-> "text", text |-> t, ids |-> {}]

JsonBody(t, ids) == [kind |-> "json", text |-> t, ids |-> ids]

\* new Response(body, {status, statusText, headers}); headers are a set of
\* <<name, value>> pairs.
Response(status, statusText, headers, body) ==
  [status |-> status, statusText |-> statusText, headers |-> headers, body |-> body]

\* No Response (undefined).
NoResponse == Response(0, "", {}, NoBody)

HeaderNames(hs) == {h[1] : h \in hs}

\* Headers.prototype.set
SetHeader(hs, name, value) == {h \in hs : h[1] # name} \cup {<<name, value>>}

HasHeader(hs, name) == name \in HeaderNames(hs)

\* isRedirectResponse: a 3xx status with a Location header.
IsRedirectResponse(r) ==
  r.status >= 300 /\ r.status <= 399 /\ HasHeader(r.headers, "Location")

\* A thrown or captured value: an Error, a Response, a route error response
\* (ErrorResponseImpl; cause = it carries the private `error` field) or
\* anything else.
ErrVal(kind, status, statusText, cause, msg, resp) ==
  [kind |-> kind, status |-> status, statusText |-> statusText, cause |-> cause,
   msg |-> msg, resp |-> resp]

NoError == ErrVal("none", 0, "", FALSE, "", NoResponse)

AnError(msg) == ErrVal("Error", 0, "", FALSE, msg, NoResponse)

\* new ErrorResponseImpl(status, statusText, data, internal)
RouteError(status, statusText, cause, msg) ==
  ErrVal("RouteError", status, statusText, cause, msg, NoResponse)

ThrownResponse(r) == ErrVal("Response", r.status, r.statusText, FALSE, "", r)

\* isResponse
IsResponse(e) == e.kind = "Response"

\* isRouteErrorResponse
IsRouteErrorResponse(e) == e.kind = "RouteError"

\* String(error)
StringOf(e) ==
  IF e.kind = "Error" THEN <<"Error: ", e.msg>>
  ELSE IF e.kind = "Response" THEN <<"[object Response]">>
  ELSE IF e.kind = "RouteError" THEN <<"[object Object]">>
  ELSE <<e.msg>>

\* ------------------------------------------------------------- the build

\* build.routes: the route manifest.  `r` is a resource route: its module has
\* neither a default component nor an ErrorBoundary.
RouteIds == {"root", "index", "a", "a_index", "ab", "r", "e"}

NoRoute == "none"

RouteTable ==
  [id \in RouteIds |->
    CASE id = "root"    -> [parent |-> NoRoute, path |-> <<>>,    index |-> FALSE,
                            hasDefault |-> TRUE,  hasErrorBoundary |-> TRUE]
      [] id = "index"   -> [parent |-> "root",  path |-> <<>>,    index |-> TRUE,
                            hasDefault |-> TRUE,  hasErrorBoundary |-> FALSE]
      [] id = "a"       -> [parent |-> "root",  path |-> <<"a">>, index |-> FALSE,
                            hasDefault |-> TRUE,  hasErrorBoundary |-> FALSE]
      [] id = "a_index" -> [parent |-> "a",     path |-> <<>>,    index |-> TRUE,
                            hasDefault |-> TRUE,  hasErrorBoundary |-> FALSE]
      [] id = "ab"      -> [parent |-> "a",     path |-> <<"b">>, index |-> FALSE,
                            hasDefault |-> TRUE,  hasErrorBoundary |-> TRUE]
      [] id = "r"       -> [parent |-> "root",  path |-> <<"r">>, index |-> FALSE,
                            hasDefault |-> FALSE, hasErrorBoundary |-> FALSE]
      [] id = "e"       -> [parent |-> "root",  path |-> <<"e">>, index |-> FALSE,
                            hasDefault |-> FALSE, hasErrorBoundary |-> TRUE]]

\* build.assets.routes: the ids that have an asset-manifest entry.
AssetRouteIds == {"root", "index", "a", "a_index", "r"}

\* build.assets.version, and a version of an older client bundle.
AssetVersion == "v2"

StaleVersion == "v1"

\* build.basename (undefined: "/") and build.routeDiscovery.manifestPath.
BuildBasename == <<"/">>

ManifestPathSetting == <<"/", "__manifest">>

\* -------------------------------------------------------- route matching

\* The chain of route ids from the root down to `id`.
RECURSIVE Branch(_)
Branch(id) ==
  IF RouteTable[id].parent = NoRoute THEN <<id>>
  ELSE Branch(RouteTable[id].parent) \o <<id>>

\* The path segments a branch matches.
RECURSIVE FullPath(_)
FullPath(id) ==
  IF RouteTable[id].parent = NoRoute THEN RouteTable[id].path
  ELSE FullPath(RouteTable[id].parent) \o RouteTable[id].path

\* A branch's rank: deeper branches and index routes win.
Score(id) == 2 * Len(Branch(id)) + (IF RouteTable[id].index THEN 1 ELSE 0)

\* The non-empty pieces of a path.
Segments(path) ==
  LET parts == SplitSlash(path)
      keep  == {i \in 1..Len(parts) : parts[i] # <<>>}
      RECURSIVE Pick(_)
      Pick(i) == IF i > Len(parts) THEN <<>>
                 ELSE IF i \in keep THEN parts[i] \o Pick(i + 1)
                 ELSE Pick(i + 1)
  IN Pick(1)

\* stripBasename(pathname, basename)
StripBasename(pathname, basename) ==
  IF basename = <<"/">> THEN pathname
  ELSE IF ~IsPrefix(basename, pathname) THEN NullPath
  ELSE LET start == IF EndsWith(basename, "/") THEN Len(basename) - 1
                    ELSE Len(basename)
       IN IF start < Len(pathname) /\ pathname[start + 1] # "/" THEN NullPath
          ELSE IF start = Len(pathname) THEN <<"/">>
          ELSE SubSeq(pathname, start + 1, Len(pathname))

\* matchServerRoutes(routes, pathname, basename): the matched chain, root
\* first, or <<>> (null) when nothing matches.
MatchServerRoutes(pathname, basename) ==
  LET stripped == StripBasename(pathname, basename)
      segs     == Segments(DecodeURI(stripped))
      cands    == {id \in RouteIds : FullPath(id) = segs}
  IN IF stripped = NullPath \/ cands = {} THEN <<>>
     ELSE Branch(CHOOSE id \in cands : \A o \in cands : Score(id) >= Score(o))

\* getManifestPath(manifestPath, basename)
GetManifestPath(manifestPath, basename) == CollapseSlashes(basename \o manifestPath)

\* ------------------------------------------------- URL normalisation

\* requestHandler, lines 154-167: the normalized path of a URL path.
NormalizedPath(pathname, basename) ==
  LET p1 == IF StripBasename(pathname, basename) = <<"/", "_root", ".data">>
            THEN basename
            ELSE IF EndsWith(pathname, ".data")
                 THEN SubSeq(pathname, 1, Len(pathname) - 1)
                 ELSE pathname
  IN IF StripBasename(p1, basename) # <<"/">> /\ EndsWith(p1, "/")
     THEN SubSeq(p1, 1, Len(p1) - 1)
     ELSE p1

\* --------------------------------------------------------------- inputs

Methods == {"GET", "HEAD", "POST"}

\* The URL paths of the requests.
UrlPaths ==
  { <<"/", "a", "/">>,
    <<"/", "a", ".data">>,
    <<"/", "_root", ".data">>,
    <<"/", "a", "/", "%62", ".data">>,
    <<"/", "r">>,
    <<"/", "e">>,
    <<"/", "x">>,
    <<"/", "x", ".data">>,
    <<"/", "__manifest">>,
    <<"/", "__manifest", "/">>,
    <<"/", "__manifest", ".data">> }

\* The values of a `p` parameter of a manifest query.
PValues == { <<"/", "a", "/", "b">>, <<"r">>, <<"/">> }

RECURSIVE SeqsUpTo(_, _)
SeqsUpTo(S, n) ==
  IF n = 0 THEN {<<>>}
  ELSE LET shorter == SeqsUpTo(S, n - 1)
       IN shorter \cup {Append(q, x) : q \in {t \in shorter : Len(t) = n - 1}, x \in S}

NoVersion == "absent"

\* The query of a request: searchParams.get("version") and getAll("p").
\* Only a request for the manifest path carries one here, nothing else
\* reads it; with the version of the build it has up to MaxPaths paths.
Queries(pathname) ==
  IF pathname = GetManifestPath(ManifestPathSetting, BuildBasename)
  THEN [version : {AssetVersion}, p : SeqsUpTo(PValues, MaxPaths)] \cup
       [version : {StaleVersion, NoVersion}, p : {<<>>, << <<"/">> >>}]
  ELSE {[version |-> NoVersion, p |-> <<>>]}

\* The initialContext argument: absent, a Map of contexts, or (where a
\* provider is built from it) something the unstable_RouterContextProvider
\* constructor rejects.
InitialContexts(b) ==
  IF b.middleware THEN {"null", "valid", "invalid"} ELSE {"null", "valid"}

\* build.prerender: no paths, or some (decoded) paths.
PrerenderLists == { {}, { <<"/", "a">>, <<"/", "a", "/", "b", "/">> } }

\* The builds: the fields of ServerBuild that requestHandler branches on.
\* Every setting of ssr and prerender comes with the optional parts
\* (middleware, the handleDataRequest hook, unstable_getCriticalCss, a build
\* factory) all absent, one of them present, or all present.
Builds ==
  { b \in [ssr : BOOLEAN, prerender : PrerenderLists, middleware : BOOLEAN,
           handleDataRequest : BOOLEAN, getCriticalCss : BOOLEAN,
           factory : BOOLEAN] :
      /\ b.ssr => b.prerender = {}
      /\ Cardinality({f \in {"middleware", "handleDataRequest", "getCriticalCss",
                             "factory"} : b[f]}) \in {0, 1, 4} }

\* The `mode` argument of createRequestHandler ("none": absent; "staging":
\* a string that is no server mode).
Modes == {"production", "development", "test", "staging", "none"}

\* ----------------------------------------------------------- derive

\* derive, line 63
DeriveServerMode(m) == IF IsServerMode(m) THEN m ELSE "production"

\* ------------------------------------------------- last-resort response

\* new Response(text, init): a string body brings its own Content-Type unless
\* the init's headers name one.
StringResponse(status, statusText, headers, text) ==
  Response(status, statusText,
           IF HasHeader(headers, "Content-Type") THEN headers
           ELSE headers \cup {<<"Content-Type", "text/plain;charset=UTF-8">>},
           TextBody(text))

\* The last-resort response with the text of the error in every mode.
LastResortWithErrorText(error, sm) ==
  StringResponse(500, "", {<<"Content-Type", "text/plain">>},
                 <<"Unexpected Server Error">> \o <<"\n\n">> \o StringOf(error))

\* returnLastResortErrorResponse(error, serverMode)
ReturnLastResortErrorResponse(error, sm) ==
  LET message == <<"Unexpected Server Error">> \o
                 (IF sm # "production" THEN <<"\n\n">> \o StringOf(error) ELSE <<>>)
  IN StringResponse(500, "", {<<"Content-Type", "text/plain">>}, message)

\* Response.json(data, init)
ResponseJson(body, status, statusText, headers) ==
  Response(status, statusText,
           headers \cup {<<"Content-Type", "application/json">>}, body)

\* ------------------------------------------------------- manifest patches

\* The requested paths with their leading slash and nothing else: no path
\* is cut into its ancestors.
WholePaths(ps) ==
  { IF StartsWith(ps[k], "/") THEN ps[k] ELSE <<"/">> \o ps[k] : k \in 1..Len(ps) }

\* handleManifestRequest, lines 369-378: the partial paths of the requested
\* paths.
PartialPaths(ps) ==
  LET Lead(path) == IF StartsWith(path, "/") THEN path ELSE <<"/">> \o path
      Segs(path) == Tail(SplitSlash(Lead(path)))
  IN UNION { { <<"/">> \o JoinSlash(SubSeq(Segs(ps[k]), 1, i)) :
                 i \in 1..Len(Segs(ps[k])) } : k \in 1..Len(ps) }

\* handleManifestRequest, lines 380-391: the route ids patched, for every
\* list of paths that a request carries here.
PatchTable ==
  [ps \in SeqsUpTo(PValues, MaxPaths) |->
     { id \in RouteIds :
         /\ id \in AssetRouteIds
         /\ \E path \in PartialPaths(ps) :
              LET matches == MatchServerRoutes(path, BuildBasename)
              IN \E j \in 1..Len(matches) : matches[j] = id }]

\* handleManifestRequest, lines 380-391: the route ids patched.
Patches(ps) == PatchTable[ps]

\* handleManifestRequest with its two tests in the other order: the `p`
\* parameter first, the version second.
HandleManifestRequestPathsFirst(query) ==
  IF Len(query.p) = 0
  THEN StringResponse(400, "", {}, <<"Invalid Request">>)
  ELSE IF AssetVersion # query.version
       THEN Response(204, "", {<<"X-Remix-Reload-Document", "true">>}, NoBody)
       ELSE ResponseJson(JsonBody(<<"patches">>, Patches(query.p)), 200, "",
                         {<<"Cache-Control", "public, max-age=31536000, immutable">>})

\* handleManifestRequest(build, routes, url), when route matching does not
\* throw.
HandleManifestRequest(query) ==
  IF AssetVersion # query.version
  THEN Response(204, "", {<<"X-Remix-Reload-Document", "true">>}, NoBody)
  ELSE IF Len(query.p) > 0
       THEN ResponseJson(JsonBody(<<"patches">>, Patches(query.p)), 200, "",
                         {<<"Cache-Control", "public, max-age=31536000, immutable">>})
       ELSE StringResponse(400, "", {}, <<"Invalid Request">>)

\* ------------------------------------------- what the collaborators do

\* A StaticHandlerContext: the status code, the captured errors in the order
\* of their route ids' insertion, and the data.
Context(statusCode, errors) ==
  [statusCode |-> statusCode, errors |-> errors, data |-> "loaderData",
   response |-> NoResponse]

NoContext == Context(0, <<>>)

\* A Response handed over where a context is expected.
ResponseAsContext(r) ==
  [statusCode |-> r.status, errors |-> <<>>, data |-> "", response |-> r]

Captured(id, err) == [id |-> id, err |-> err]

\* The outcomes of the data pipeline (staticHandler.query) that are contexts.
Contexts ==
  { Context(200, <<>>),
    Context(204, <<>>),
    Context(404, <<Captured("root", RouteError(404, "Not Found", FALSE, "no such page"))>>),
    Context(405, <<Captured("root", RouteError(405, "Method Not Allowed", TRUE, "no action")),
                   Captured("a", AnError("loader failed"))>>) }

\* A Response a loader, an action or a middleware produced.
RouteResponses ==
  { Response(200, "", {<<"Content-Type", "image/png">>}, TextBody(<<"bytes">>)),
    Response(302, "", {<<"Location", "/login">>}, NoBody) }

\* What staticHandler.query throws.
QueryThrows == { AnError("query failed") }

\* What the render function (build.entry.module.default) throws.
RenderThrows ==
  { AnError("render failed"),
    ThrownResponse(Response(401, "Unauthorized", {}, TextBody(<<"login first">>))) }

\* What the render function throws when it is called again.
SecondRenderThrows == { AnError("render failed again") }

\* The message of the error staticHandler.queryRoute throws when the route
\* returned no Response.
QueryRouteSentinel == "Expected a response from queryRoute"

\* What staticHandler.queryRoute throws.
QueryRouteThrows ==
  { ThrownResponse(Response(403, "", {}, TextBody(<<"forbidden">>))),
    RouteError(404, "Not Found", FALSE, "no such thing"),
    RouteError(405, "Method Not Allowed", TRUE, "no action"),
    AnError(QueryRouteSentinel),
    AnError("resource failed"),
    ErrVal("Unknown", 0, "", FALSE, "a thrown string", NoResponse) }

\* What staticHandler.queryRoute returns: a Response, a string, or another
\* value that JSON can serialize.
RouteValue(kind, text, resp) == [kind |-> kind, text |-> text, resp |-> resp]

NoValue == RouteValue("none", "", NoResponse)

QueryRouteReturns ==
  { RouteValue("response", "", r) : r \in RouteResponses } \cup
  { RouteValue("string", "ok", NoResponse),
    RouteValue("value", "{a:1}", NoResponse),
    RouteValue("value", "null", NoResponse) }

\* JSON.stringify(value)
JsonStringify(v) == <<"json", v>>

\* sanitizeErrors(errors, serverMode): outside development an Error keeps
\* only a generic message.
SanitizeError(e, sm) ==
  IF e.kind = "Error" /\ sm # "development"
  THEN [e EXCEPT !.msg = "Unexpected Server Error"]
  ELSE e

SanitizeErrors(errors, sm) ==
  [i \in 1..Len(errors) |-> Captured(errors[i].id, SanitizeError(errors[i].err, sm))]

\* getDocumentHeaders(context, build): the headers of the document.
GetDocumentHeaders(context) ==
  IF context.errors = <<>> THEN {<<"Cache-Control", "max-age=60">>} ELSE {}

\* getStaticContextFromError(dataRoutes, context, error): the context with
\* the error at its boundary.
GetStaticContextFromError(context, error) ==
  [context EXCEPT
     !.statusCode = IF IsRouteErrorResponse(error) THEN error.status ELSE 500,
     !.errors = <<Captured("root", error)>>]

\* new ErrorResponseImpl(error.status, error.statusText, data) of a thrown
\* Response whose body unwrapResponse could read.
UnwrappedResponse(error) ==
  RouteError(error.status, error.statusText, FALSE, "unwrapped body")

\* singleFetchLoaders and singleFetchAction: the data result of the loaders
\* or the action, encoded; a redirect result comes back with the single-fetch
\* redirect status.
DataResults == {"data", "redirect", "error"}

SingleFetchResponse(strategy, dataResult) ==
  CASE dataResult = "data" ->
         Response(200, "", {<<"Content-Type", "text/x-script">>},
                  TextBody(<<"turbo-stream", strategy, "data">>))
    [] dataResult = "error" ->
         Response(500, "", {<<"Content-Type", "text/x-script">>},
                  TextBody(<<"turbo-stream", strategy, "error">>))
    [] dataResult = "redirect" ->
         Response(SINGLE_FETCH_REDIRECT_STATUS, "",
                  {<<"Content-Type", "text/x-script">>, <<"Location", "/login">>},
                  TextBody(<<"turbo-stream", strategy, "redirect">>))

\* What the handleDataRequest hook returns for a response: the response
\* itself, or one of its own.
HookResponses(r) ==
  { r,
    Response(302, "", {<<"Location", "/login">>, <<"Content-Type", "text/html">>}, NoBody),
    Response(304, "", {}, NoBody) }

\* ---------------------------------------------------------------- state

VARIABLES
  build,            \* the build given to createRequestHandler (or made by the factory)
  mode,             \* the mode given to createRequestHandler
  derived,          \* routes, serverMode, staticHandler, errorHandler are set
  serverMode,       \* the closure's serverMode
  pc,               \* where requestHandler is
  req,              \* the request: method, pathname, query
  initialContext,   \* the initialContext argument, once the load context is made from it
  loadContext,      \* the load context
  normalizedPath,
  isSpaMode,
  routeId,          \* the routeId handed to handleResourceRequest
  criticalCss,
  response,         \* requestHandler's `response`
  context,          \* renderHtml's `context`
  headers,          \* renderHtml's `headers`
  viaRespond,       \* renderHtml runs as the unstable_respond callback
  dispatched,       \* the strategies called, in order
  renders,          \* the calls of the render function, in order
  renderErrors,     \* what the render function threw, in order
  reported,         \* the calls of errorHandler, in order
  occurred,         \* the errors that occurred, in order
  strategyResponse, \* the Response the strategy returned
  dataResult,       \* what the loaders or the action of a `.data` request came to
  queryRouteResult, \* what staticHandler.queryRoute returned
  produced,         \* the Response the handling produced before its last step
  result,           \* how requestHandler ended
  via,              \* the return statement it ended at
  closure,          \* createRequestHandler's _build, routes, serverMode, staticHandler, errorHandler
  made,             \* the builds the derivations were made from, in order
  inflight,         \* the calls of requestHandler that overlap
  arrived           \* the calls of requestHandler, in order

cfgVars == <<build, mode>>

derivedVars == <<derived, serverMode>>

reqVars == <<req, initialContext>>

localVars ==
  <<loadContext, normalizedPath, isSpaMode, routeId, criticalCss, response,
    context, headers, viaRespond>>

logVars ==
  <<dispatched, renders, renderErrors, reported, occurred, strategyResponse,
    dataResult, queryRouteResult>>

endVars == <<produced, result, via>>

\* One call of requestHandler from its first line to its return.
requestVars == <<cfgVars, derivedVars, pc, reqVars, localVars, logVars, endVars>>

\* Calls of requestHandler that overlap, and the variables that
\* createRequestHandler's closure shares among them.
overlapVars == <<closure, made, inflight, arrived>>

vars == <<requestVars, overlapVars>>

NoResult == [kind |-> "none", resp |-> NoResponse, err |-> NoError]

Returned(r) == [kind |-> "response", resp |-> r, err |-> NoError]

Rejected(e) == [kind |-> "rejected", resp |-> NoResponse, err |-> e]

\* One error at one place of the handling.
Occurrence(site, id, err) == [site |-> site, id |-> id, err |-> err]

Requests ==
  { r \in [method : Methods, pathname : UrlPaths,
           query : UNION {Queries(path) : path \in UrlPaths}] :
      r.query \in Queries(r.pathname) }

NoRequest ==
  [method |-> "none", pathname |-> NullPath, query |-> [version |-> NoVersion, p |-> <<>>]]

\* The calls of requestHandler that may overlap.
RequestIds == 1..MaxRequests

\* Lines 91-95: the closure's variables before the first derivation; each
\* holds the number of the derivation that set it (0: not set).
NoClosure ==
  [build |-> 0, routes |-> 0, serverMode |-> 0, staticHandler |-> 0,
   errorHandler |-> 0]

\* A call of requestHandler that has not been made: where it is, the
\* derivation it made or found, how often it called the factory and derive,
\* and what it read in the closure's variables each time it ran.
NotCalled == [at |-> "idle", own |-> 0, calls |-> 0, derives |-> 0, observed |-> <<>>]

\* What a build factory returns: the same build again, or another.
FactoryBuilds == {"build A", "build B"}

\* The build that is no factory.
StaticBuild == "the build"

Init ==
  /\ closure = NoClosure
  /\ made = <<>>
  /\ inflight = [r \in RequestIds |-> NotCalled]
  /\ arrived = <<>>
  /\ build \in Builds
  /\ mode \in Modes
  /\ derived = FALSE
  /\ serverMode = "unset"
  /\ pc = "idle"
  /\ req = NoRequest
  /\ initialContext = "unset"
  /\ loadContext = "unset"
  /\ normalizedPath = NullPath
  /\ isSpaMode = FALSE
  /\ routeId = NoRoute
  /\ criticalCss = "none"
  /\ response = NoResponse
  /\ context = NoContext
  /\ headers = {}
  /\ viaRespond = FALSE
  /\ dispatched = <<>>
  /\ renders = <<>>
  /\ renderErrors = <<>>
  /\ reported = <<>>
  /\ occurred = <<>>
  /\ strategyResponse = NoResponse
  /\ dataResult = "none"
  /\ queryRouteResult = NoValue
  /\ produced = NoResponse
  /\ result = NoResult
  /\ via = "none"

\* requestHandler returns r at the return statement `tag`.
Return(r, tag) ==
  /\ produced' = r
  /\ result' = Returned(r)
  /\ via' = tag
  /\ pc' = "done"

\* The mutant of Reject: a throw that nothing catches is answered with the
\* last-resort Response all the same.
RejectAsLastResort(e, tag) ==
  /\ produced' = ReturnLastResortErrorResponse(e, "production")
  /\ result' = Returned(ReturnLastResortErrorResponse(e, "production"))
  /\ via' = tag
  /\ pc' = "done"

\* requestHandler rejects with e, thrown at `tag`.
Reject(e, tag) ==
  /\ produced' = NoResponse
  /\ result' = Rejected(e)
  /\ via' = tag
  /\ pc' = "done"

\* handleError(error) and the direct calls of errorHandler: one call of the
\* configured errorHandler.
HandleError(log, site, id, err) == Append(log, Occurrence(site, id, err))

\* requestHandler(request, initialContext) is called: line 97.
Start ==
  /\ pc = "idle"
  /\ \E r \in Requests : req' = r
  /\ UNCHANGED initialContext
  /\ pc' = "derive"
  /\ UNCHANGED <<overlapVars, cfgVars, derivedVars, localVars, logVars, endVars>>

\* The promise that requestHandler returned has settled: the call's
\* variables are gone, the closure's stay.
Settle ==
  /\ pc = "done"
  /\ pc' = "idle"
  /\ req' = NoRequest
  /\ initialContext' = "unset"
  /\ loadContext' = "unset"
  /\ normalizedPath' = NullPath
  /\ isSpaMode' = FALSE
  /\ routeId' = NoRoute
  /\ criticalCss' = "none"
  /\ response' = NoResponse
  /\ context' = NoContext
  /\ headers' = {}
  /\ viaRespond' = FALSE
  /\ dispatched' = <<>>
  /\ renders' = <<>>
  /\ renderErrors' = <<>>
  /\ reported' = <<>>
  /\ occurred' = <<>>
  /\ strategyResponse' = NoResponse
  /\ dataResult' = "none"
  /\ queryRouteResult' = NoValue
  /\ produced' = NoResponse
  /\ result' = NoResult
  /\ via' = "none"
  /\ UNCHANGED <<overlapVars, cfgVars, derivedVars>>

\* Lines 98-112: the build is resolved (a factory is called and may throw)
\* and the closure's variables are derived: every time for a factory, once
\* for a static build.
Derive ==
  /\ pc = "derive"
  /\ \E ok \in (IF build.factory THEN BOOLEAN ELSE {TRUE}) :
       IF ~ok
       THEN /\ Reject(AnError("build factory failed"), "factory")
            /\ UNCHANGED derivedVars
       ELSE /\ IF build.factory \/ ~derived
               THEN /\ derived' = TRUE
                    /\ serverMode' = DeriveServerMode(mode)
               ELSE UNCHANGED derivedVars
            /\ pc' = "context"
            /\ UNCHANGED endVars
  /\ UNCHANGED <<overlapVars, cfgVars, reqVars, localVars, logVars>>

ConfigurationError ==
  AnError("Unable to create initial unstable_RouterContextProvider instance.")

\* The mutant of ReportConfigurationError: the configuration error is answered
\* without being handed to the error handler.
ConfigurationErrorUnreported(rep) == rep

\* handleError(error) of line 144, for the error built at lines 138-143.
ReportConfigurationError(rep) == HandleError(rep, "config", "", ConfigurationError)

\* Lines 129-150: the load context.  In middleware mode a provider is built
\* from initialContext, and the constructor throws on what is no Map of
\* contexts; otherwise the load context is initialContext or {}.
MakeContext ==
  /\ pc = "context"
  /\ \E given \in InitialContexts(build) :
       /\ initialContext' = given
       /\ IF build.middleware
          THEN IF given = "null"
               THEN /\ loadContext' = "empty provider"
                    /\ pc' = "classify"
                    /\ UNCHANGED <<reported, occurred, endVars>>
               ELSE IF given = "valid"
                    THEN /\ loadContext' = "provider of initialContext"
                         /\ pc' = "classify"
                         /\ UNCHANGED <<reported, occurred, endVars>>
                    ELSE /\ occurred' = Append(occurred,
                                               Occurrence("config", "", ConfigurationError))
                         /\ reported' = ReportConfigurationError(reported)
                         /\ Return(ReturnLastResortErrorResponse(ConfigurationError,
                                                                 serverMode),
                                   "configError")
                         /\ UNCHANGED loadContext
          ELSE /\ loadContext' = IF given = "null" THEN "empty mapping"
                                 ELSE "initialContext"
               /\ pc' = "classify"
               /\ UNCHANGED <<reported, occurred, endVars>>
  /\ UNCHANGED <<overlapVars, cfgVars, derivedVars, req, normalizedPath, isSpaMode, routeId,
                 criticalCss, response, context, headers, viaRespond, dispatched,
                 renders, renderErrors, strategyResponse, dataResult, queryRouteResult>>

\* The test without its second half: a path listed with a trailing slash
\* counts as not prerendered.
NotListedAsItIs(decodedPath) == decodedPath \notin build.prerender

\* The path of `decodedPath` is neither in build.prerender nor there with a
\* trailing slash: lines 184-185.
NotPrerendered(decodedPath) ==
  /\ decodedPath \notin build.prerender
  /\ (decodedPath \o <<"/">>) \notin build.prerender

RefusedError ==
  RouteError(404, "Not Found", FALSE, "Refusing to SSR the path")

\* The test made on the normalized path: the manifest path with a trailing
\* slash or a `.data` suffix passes it too.
IsNormalizedManifestPath(pathname, normalized) ==
  normalized = GetManifestPath(ManifestPathSetting, BuildBasename)

\* Lines 213-217: the test for a manifest request, made on url.pathname.
IsManifestRequest(pathname, normalized) ==
  pathname = GetManifestPath(ManifestPathSetting, BuildBasename)

\* Lines 152-217: the normalized path, SPA mode (spaHeader: the build-time
\* header X-React-Router-SPA-Mode of the request says yes), the 404 of a `.data` request
\* for a path that is not prerendered when ssr is off, and the test for the
\* manifest path.
Classify ==
  /\ pc = "classify"
  /\ \E spaHeader \in BOOLEAN :
     LET np      == NormalizedPath(req.pathname, BuildBasename)
         decoded == DecodeURI(np)
     IN /\ normalizedPath' = np
        /\ IF ~build.ssr /\ build.prerender # {} /\ NotPrerendered(decoded)
              /\ EndsWith(req.pathname, ".data")
           THEN /\ occurred' = Append(occurred, Occurrence("ssr404", "", RefusedError))
                /\ reported' = HandleError(reported, "ssr404", "", RefusedError)
                /\ Return(StringResponse(404, "Not Found", {}, <<"Not Found">>), "ssr404")
                /\ isSpaMode' = spaHeader
           ELSE /\ isSpaMode' =
                     IF ~build.ssr /\ (build.prerender = {} \/ NotPrerendered(decoded))
                     THEN TRUE
                     ELSE spaHeader
                /\ pc' = IF IsManifestRequest(req.pathname, np)
                         THEN "manifest"
                         ELSE "dispatch"
                /\ UNCHANGED <<reported, occurred, endVars>>
  /\ UNCHANGED <<overlapVars, cfgVars, derivedVars, reqVars, loadContext, routeId, criticalCss,
                 response, context, headers, viaRespond, dispatched, renders,
                 renderErrors, strategyResponse, dataResult, queryRouteResult>>

ManifestFailure == AnError("route matching failed")

\* Manifest without its return statements: the handling goes on to the route
\* matching and a second strategy.
ManifestFallsThrough ==
  /\ pc = "manifest"
  /\ dispatched' = Append(dispatched, "manifest")
  /\ strategyResponse' = HandleManifestRequest(req.query)
  /\ pc' = "dispatch"
  /\ UNCHANGED <<overlapVars, cfgVars, derivedVars, reqVars, localVars, renders, renderErrors,
                 reported, occurred, dataResult, queryRouteResult, endVars>>

\* Lines 217-225: handleManifestRequest is called and its Response returned;
\* when it throws (route matching, which it reaches with a matching version
\* and a `p`), the error is reported and a 500 returned.
Manifest ==
  /\ pc = "manifest"
  /\ dispatched' = Append(dispatched, "manifest")
  /\ \E throws \in (IF AssetVersion = req.query.version /\ Len(req.query.p) > 0
                    THEN BOOLEAN ELSE {FALSE}) :
       IF throws
       THEN /\ occurred' = Append(occurred, Occurrence("manifest", "", ManifestFailure))
            /\ reported' = HandleError(reported, "manifest", "", ManifestFailure)
            /\ Return(StringResponse(500, "", {}, <<"Unknown Server Error">>), "manifest")
            /\ UNCHANGED strategyResponse
       ELSE /\ strategyResponse' = HandleManifestRequest(req.query)
            /\ Return(HandleManifestRequest(req.query), "manifest")
            /\ UNCHANGED <<reported, occurred>>
  /\ UNCHANGED <<overlapVars, cfgVars, derivedVars, reqVars, localVars, renders, renderErrors,
                 dataResult, queryRouteResult>>

\* The test without its last line: a route module with an ErrorBoundary and
\* no default component counts as a resource route.
HasNoDefaultComponent(matches) ==
  /\ matches # <<>>
  /\ ~RouteTable[matches[Len(matches)]].hasDefault

\* The deepest match's route module has neither a default component nor an
\* ErrorBoundary: lines 293-294.
IsResourceMatch(matches) ==
  /\ matches # <<>>
  /\ ~RouteTable[matches[Len(matches)]].hasDefault
  /\ ~RouteTable[matches[Len(matches)]].hasErrorBoundary

\* Lines 227-328: the routes are matched and the strategy is chosen.
Dispatch ==
  /\ pc = "dispatch"
  /\ LET matches == MatchServerRoutes(normalizedPath, BuildBasename)
     IN IF EndsWith(req.pathname, ".data")
        THEN /\ pc' = "singleFetch"
             /\ UNCHANGED routeId
        ELSE IF ~isSpaMode /\ IsResourceMatch(matches)
             THEN /\ pc' = "resource"
                  /\ routeId' = matches[Len(matches)]
             ELSE /\ pc' = IF build.getCriticalCss \/ mode = "development"
                           THEN "criticalCss"
                           ELSE "document"
                  /\ UNCHANGED routeId
  /\ UNCHANGED <<overlapVars, cfgVars, derivedVars, reqVars, loadContext, normalizedPath, isSpaMode,
                 criticalCss, response, context, headers, viaRespond, logVars, endVars>>

\* The mutant of SingleFetchStrategy: a HEAD request runs the loaders, like a
\* GET.
SingleFetchStrategyHeadLoads(method) ==
  IF method \in {"GET", "HEAD"} THEN "loaders" ELSE "action"

\* handleSingleFetchRequest, lines 412-431: the strategy by method.
SingleFetchStrategy(method) == IF method # "GET" THEN "action" ELSE "loaders"

\* Lines 233-251 and handleSingleFetchRequest: the data strategy runs.
SingleFetch ==
  /\ pc = "singleFetch"
  /\ dispatched' = Append(dispatched, "singleFetch")
  /\ \E d \in DataResults :
       LET res == SingleFetchResponse(SingleFetchStrategy(req.method), d)
       IN /\ response' = res
          /\ strategyResponse' = res
          /\ dataResult' = d
  /\ pc' = IF build.handleDataRequest THEN "dataHook" ELSE "finish"
  /\ UNCHANGED <<overlapVars, cfgVars, derivedVars, reqVars, loadContext, normalizedPath, isSpaMode,
                 routeId, criticalCss, context, headers, viaRespond, renders,
                 renderErrors, reported, occurred, queryRouteResult, endVars>>

\* The repackaged redirect with the status of the redirect it carries.
SingleFetchRedirectKeepsStatus(redirect, method) ==
  Response(redirect.status, "",
           SetHeader(redirect.headers, "Content-Type", "text/x-script"),
           TextBody(<<"turbo-stream",
                      IF method = "GET" THEN "SingleFetchRedirectSymbol" ELSE "bare",
                      "redirect">>))

\* Lines 261-287: the Response that carries a redirect to the client.
SingleFetchRedirect(redirect, method) ==
  Response(SINGLE_FETCH_REDIRECT_STATUS, "",
           SetHeader(redirect.headers, "Content-Type", "text/x-script"),
           TextBody(<<"turbo-stream",
                      IF method = "GET" THEN "SingleFetchRedirectSymbol" ELSE "bare",
                      "redirect">>))

\* Lines 253-289: the handleDataRequest hook transforms the response (or
\* throws); a redirect it leaves is repackaged and returned.
DataHook ==
  /\ pc = "dataHook"
  /\ \/ /\ Reject(AnError("handleDataRequest failed"), "dataHook")
        /\ UNCHANGED response
     \/ \E r \in HookResponses(response) :
          /\ response' = r
          /\ IF IsRedirectResponse(r)
             THEN Return(SingleFetchRedirect(r, req.method), "singleFetchRedirect")
             ELSE /\ pc' = "finish"
                  /\ UNCHANGED endVars
  /\ UNCHANGED <<overlapVars, cfgVars, derivedVars, reqVars, loadContext, normalizedPath, isSpaMode,
                 routeId, criticalCss, context, headers, viaRespond, logVars>>

\* serializeError(error, serverMode): the message only outside development.
SerializeError(causePresent, sm) ==
  IF causePresent /\ sm = "development"
  THEN <<"message", "the cause", "stack">>
  ELSE <<"message", "Unexpected Server Error">>

\* The mutant of ErrorResponseToJson: the JSON error response is always a 500
\* and has no status text.
ErrorResponseToJson500(e, sm) ==
  ResponseJson(JsonBody(SerializeError(e.cause, sm), {}), 500, "",
               {<<"X-Remix-Error", "yes">>})

\* errorResponseToJson(errorResponse, serverMode)
ErrorResponseToJson(e, sm) ==
  ResponseJson(JsonBody(SerializeError(e.cause, sm), {}), e.status, e.statusText,
               {<<"X-Remix-Error", "yes">>})

HandlerContractError ==
  AnError("Expected a Response to be returned from resource route handler")

\* A returned Response tagged like a thrown one.
ResourceResponseTagged(v) ==
  IF v.kind = "response"
  THEN [v.resp EXCEPT !.headers = SetHeader(v.resp.headers, "X-Remix-Catch", "yes")]
  ELSE IF v.kind = "string" THEN StringResponse(200, "", {}, <<v.text>>)
  ELSE ResponseJson(JsonBody(JsonStringify(v.text), {}), 200, "", {})

\* handleResourceRequest, lines 627-635: the Response of what queryRoute
\* returned.
ResourceResponse(v) ==
  IF v.kind = "response" THEN v.resp
  ELSE IF v.kind = "string" THEN StringResponse(200, "", {}, <<v.text>>)
  ELSE ResponseJson(JsonBody(JsonStringify(v.text), {}), 200, "", {})

\* The report of a resource route's thrown value under the test of renderHtml:
\* a route error without a cause is passed over.
ResourceReportByCause(e) ==
  IF IsResponse(e) THEN NoError
  ELSE IF IsRouteErrorResponse(e) THEN (IF e.cause THEN e ELSE NoError)
  ELSE IF e.kind = "Error" /\ e.msg = QueryRouteSentinel THEN HandlerContractError
  ELSE e

\* handleResourceRequest, lines 636-664: what is reported for a value that
\* queryRoute threw (NoError: nothing).
ResourceReport(e) ==
  IF IsResponse(e) THEN NoError
  ELSE IF IsRouteErrorResponse(e) THEN e
  ELSE IF e.kind = "Error" /\ e.msg = QueryRouteSentinel THEN HandlerContractError
  ELSE e

\* handleResourceRequest, lines 636-664: the Response for a value that
\* queryRoute threw.
ResourceCatch(e, sm) ==
  IF IsResponse(e)
  THEN [e.resp EXCEPT !.headers = SetHeader(e.resp.headers, "X-Remix-Catch", "yes")]
  ELSE IF IsRouteErrorResponse(e) THEN ErrorResponseToJson(e, sm)
  ELSE IF e.kind = "Error" /\ e.msg = QueryRouteSentinel
       THEN ReturnLastResortErrorResponse(HandlerContractError, sm)
  ELSE ReturnLastResortErrorResponse(e, sm)

\* Lines 296-304 and handleResourceRequest: queryRoute runs the route and
\* returns a value or throws one.
Resource ==
  /\ pc = "resource"
  /\ dispatched' = Append(dispatched, "resource")
  /\ \/ \E v \in QueryRouteReturns :
          /\ response' = ResourceResponse(v)
          /\ strategyResponse' = ResourceResponse(v)
          /\ queryRouteResult' = v
          /\ UNCHANGED <<reported, occurred>>
     \/ \E e \in QueryRouteThrows :
          /\ response' = ResourceCatch(e, serverMode)
          /\ strategyResponse' = ResourceCatch(e, serverMode)
          /\ UNCHANGED queryRouteResult
          /\ occurred' = Append(occurred, Occurrence("resource", "", e))
          /\ reported' = IF ResourceReport(e) = NoError THEN reported
                         ELSE HandleError(reported, "resource", "", ResourceReport(e))
  /\ pc' = "finish"
  /\ UNCHANGED <<overlapVars, cfgVars, derivedVars, reqVars, loadContext, normalizedPath, isSpaMode,
                 routeId, criticalCss, context, headers, viaRespond, renders,
                 renderErrors, dataResult, endVars>>

\* Lines 306-316: the critical CSS comes from build.unstable_getCriticalCss,
\* or in development from the dev server's hook when there is one; either
\* may throw.
CriticalCss ==
  /\ pc = "criticalCss"
  /\ \/ /\ Reject(AnError("getCriticalCss failed"), "criticalCss")
        /\ UNCHANGED criticalCss
     \/ /\ criticalCss' = "css"
        /\ pc' = "document"
        /\ UNCHANGED endVars
  /\ UNCHANGED <<overlapVars, cfgVars, derivedVars, reqVars, loadContext, normalizedPath, isSpaMode,
                 routeId, response, context, headers, viaRespond, logVars>>

\* handleDocumentRequest returns r to requestHandler.
DocumentReturns(r) ==
  /\ response' = r
  /\ strategyResponse' = r
  /\ pc' = "finish"

\* The mutant of QueryCatch: the catch answers like the last resort, with a
\* text.
QueryCatchLastResort(e) == ReturnLastResortErrorResponse(e, "production")

\* handleDocumentRequest, line 458: the Response of the catch, whatever was
\* thrown.
QueryCatch(e) == Response(500, "", {}, NoBody)

\* Lines 318-327 and handleDocumentRequest, lines 446-460: staticHandler.query
\* throws, returns a Response, returns a context (renderHtml is called with
\* it), or, in middleware mode, hands a context or a Response to
\* unstable_respond (renderHtml) and returns what that returns.
DocumentQuery ==
  /\ pc = "document"
  /\ dispatched' = Append(dispatched, "document")
  /\ \/ \E e \in QueryThrows :
          /\ occurred' = Append(occurred, Occurrence("query", "", e))
          /\ reported' = HandleError(reported, "query", "", e)
          /\ DocumentReturns(QueryCatch(e))
          /\ UNCHANGED <<context, viaRespond>>
     \/ \E r \in RouteResponses :
          /\ DocumentReturns(r)
          /\ UNCHANGED <<context, viaRespond, reported, occurred>>
     \/ \E c \in Contexts, respond \in (IF build.middleware THEN BOOLEAN ELSE {FALSE}) :
          /\ context' = c
          /\ viaRespond' = respond
          /\ pc' = "renderHtml"
          /\ UNCHANGED <<response, strategyResponse, reported, occurred>>
     \/ /\ build.middleware
        /\ \E r \in RouteResponses :
             /\ context' = ResponseAsContext(r)
             /\ viaRespond' = TRUE
             /\ pc' = "renderHtml"
             /\ UNCHANGED <<response, strategyResponse, reported, occurred>>
  /\ UNCHANGED <<overlapVars, cfgVars, derivedVars, reqVars, loadContext, normalizedPath, isSpaMode,
                 routeId, criticalCss, headers, renders, renderErrors, dataResult,
                 queryRouteResult, endVars>>

\* One call of the render function: the pass, and the arguments that differ
\* between calls.
RenderCall(pass, ctx, hs, spa, handoffCss) ==
  [pass |-> pass, statusCode |-> ctx.statusCode, headers |-> hs, context |-> ctx,
   isSpaMode |-> spa, handoffCss |-> handoffCss]

\* A test that passes over every route error, with or without a cause.
IsNoRouteError(err) == ~IsRouteErrorResponse(err)

\* renderHtml, line 478: the captured errors that are reported.
IsReported(err) == ~IsRouteErrorResponse(err) \/ err.cause

\* renderHtml, lines 475-481: the calls of errorHandler for the captured
\* errors, in order.
RECURSIVE ReportCaptured(_, _)
ReportCaptured(log, errors) ==
  IF errors = <<>> THEN log
  ELSE ReportCaptured(
         IF IsReported(Head(errors).err)
         THEN HandleError(log, "context", Head(errors).id, Head(errors).err)
         ELSE log,
         Tail(errors))

CapturedOccurrences(errors) ==
  [i \in 1..Len(errors) |-> Occurrence("context", errors[i].id, errors[i].err)]

\* The mutant of NoBodyResponse: the document headers are left out.
NoBodyResponseWithoutHeaders(ctx, hs) == Response(ctx.statusCode, "", {}, NoBody)

\* renderHtml, line 471: new Response(null, { status: context.statusCode,
\* headers }).
NoBodyResponse(ctx, hs) == Response(ctx.statusCode, "", hs, NoBody)

\* renderHtml, lines 462-533: a Response is returned as it is; a status
\* without a body gets a Response without one; otherwise the captured errors
\* are reported and sanitized and the render function is called.
\* getDocumentHeaders (line 467) may throw, outside every try block of
\* renderHtml.  When handleDocumentRequest called renderHtml itself (line 455),
\* the promise of renderHtml is returned without an await, the catch of line
\* 456 does not see its rejection, and requestHandler rejects at line 318.
\* (As unstable_respond, renderHtml throws into staticHandler.query, which is
\* no part of this file: that throw is left out.)
RenderHtml ==
  /\ pc = "renderHtml"
  /\ \/ /\ context.response # NoResponse
        /\ DocumentReturns(context.response)
        /\ UNCHANGED <<headers, context, renders, reported, occurred, endVars>>
     \/ /\ context.response = NoResponse
        /\ ~viaRespond
        /\ Reject(AnError("getDocumentHeaders failed"), "getDocumentHeaders")
        /\ UNCHANGED <<headers, context, renders, reported, occurred, response,
                       strategyResponse>>
     \/ /\ context.response = NoResponse
        /\ headers' = GetDocumentHeaders(context)
        /\ IF context.statusCode \in SERVER_NO_BODY_STATUS_CODES
           THEN /\ DocumentReturns(NoBodyResponse(context, GetDocumentHeaders(context)))
                /\ UNCHANGED <<context, renders, reported, occurred>>
           ELSE /\ occurred' = occurred \o CapturedOccurrences(context.errors)
                /\ reported' = ReportCaptured(reported, context.errors)
                /\ context' = [context EXCEPT
                                 !.errors = SanitizeErrors(context.errors, serverMode)]
                /\ renders' = Append(renders,
                                RenderCall(1, context', GetDocumentHeaders(context),
                                           isSpaMode, criticalCss))
                /\ pc' = "render1"
                /\ UNCHANGED <<response, strategyResponse>>
        /\ UNCHANGED endVars
  /\ UNCHANGED <<overlapVars, cfgVars, derivedVars, reqVars, loadContext, normalizedPath, isSpaMode,
                 routeId, criticalCss, viaRespond, dispatched, renderErrors, dataResult,
                 queryRouteResult>>

\* What the render function returns: the document.
Rendered(call) ==
  Response(call.statusCode, "", SetHeader(call.headers, "Content-Type", "text/html"),
           TextBody(<<"html", IF call.isSpaMode THEN "spa" ELSE "ssr">>))

\* renderHtml, lines 537-552: the error for the second render; a thrown
\* Response is unwrapped when its body can be read.
ErrorForSecondRender(error, unwrapped) ==
  IF IsResponse(error) /\ unwrapped THEN UnwrappedResponse(error) ELSE error

\* The second render with the context of the first, the error left out.
SecondContextStale(ctx, error, sm) == ctx

\* renderHtml, lines 555-564: the context of the second render.
SecondContext(ctx, error, sm) ==
  LET fresh == GetStaticContextFromError(ctx, error)
  IN [fresh EXCEPT !.errors = SanitizeErrors(fresh.errors, sm)]

\* renderHtml, lines 524-597: the first call of the render function returns,
\* or throws: the error is reported, the context recomputed and the render
\* function called again.  getStaticContextFromError (line 555) may throw, in
\* the catch block and outside the try of line 588: renderHtml rejects, and
\* requestHandler with it when handleDocumentRequest called renderHtml itself.
FirstRenderEnds ==
  /\ pc = "render1"
  /\ \/ /\ DocumentReturns(Rendered(renders[Len(renders)]))
        /\ UNCHANGED <<context, renders, renderErrors, reported, occurred, endVars>>
     \/ \E e \in RenderThrows, unwrapped \in BOOLEAN :
          /\ IsResponse(e) \/ unwrapped
          /\ renderErrors' = Append(renderErrors, e)
          /\ occurred' = Append(occurred, Occurrence("render1", "", e))
          /\ reported' = HandleError(reported, "render1", "", e)
          /\ context' = SecondContext(context, ErrorForSecondRender(e, unwrapped), serverMode)
          /\ renders' = Append(renders,
                          RenderCall(2, context', headers, isSpaMode, "none"))
          /\ pc' = "render2"
          /\ UNCHANGED <<response, strategyResponse, endVars>>
     \/ \E e \in RenderThrows :
          /\ ~viaRespond
          /\ renderErrors' = Append(renderErrors, e)
          /\ occurred' = Append(occurred, Occurrence("render1", "", e))
          /\ reported' = HandleError(reported, "render1", "", e)
          /\ Reject(AnError("getStaticContextFromError failed"),
                    "getStaticContextFromError")
          /\ UNCHANGED <<context, renders, response, strategyResponse>>
  /\ UNCHANGED <<overlapVars, cfgVars, derivedVars, reqVars, loadContext, normalizedPath, isSpaMode,
                 routeId, criticalCss, headers, viaRespond, dispatched, dataResult,
                 queryRouteResult>>

\* SecondRenderEnds with a catch block that calls the render function once
\* more instead of giving up.
SecondRenderRetries ==
  /\ pc = "render2"
  /\ \/ /\ DocumentReturns(Rendered(renders[Len(renders)]))
        /\ UNCHANGED <<renders, renderErrors, reported, occurred>>
     \/ \E e \in SecondRenderThrows :
          /\ Len(renders) < 4
          /\ renderErrors' = Append(renderErrors, e)
          /\ occurred' = Append(occurred, Occurrence("render2", "", e))
          /\ reported' = HandleError(reported, "render2", "", e)
          /\ renders' = Append(renders, RenderCall(2, context, headers, isSpaMode, "none"))
          /\ UNCHANGED <<pc, response, strategyResponse>>
  /\ UNCHANGED <<overlapVars, cfgVars, derivedVars, reqVars, loadContext, normalizedPath, isSpaMode,
                 routeId, criticalCss, context, headers, viaRespond, dispatched,
                 dataResult, queryRouteResult, endVars>>

\* renderHtml, lines 588-601: the second call of the render function returns,
\* or throws: the error is reported and the last-resort Response returned.
SecondRenderEnds ==
  /\ pc = "render2"
  /\ \/ /\ DocumentReturns(Rendered(renders[Len(renders)]))
        /\ UNCHANGED <<renderErrors, reported, occurred>>
     \/ \E e \in SecondRenderThrows :
          /\ renderErrors' = Append(renderErrors, e)
          /\ occurred' = Append(occurred, Occurrence("render2", "", e))
          /\ reported' = HandleError(reported, "render2", "", e)
          /\ DocumentReturns(ReturnLastResortErrorResponse(e, serverMode))
  /\ UNCHANGED <<overlapVars, cfgVars, derivedVars, reqVars, loadContext, normalizedPath, isSpaMode,
                 routeId, criticalCss, context, headers, viaRespond, dispatched,
                 renders, dataResult, queryRouteResult, endVars>>

\* Lines 330-335: the Response of a HEAD request.
HeadResponse(r) == Response(r.status, r.statusText, r.headers, NoBody)

\* Lines 330-338: the strategy's Response is returned, without its body when
\* the method is HEAD.
Finish ==
  /\ pc = "finish"
  /\ produced' = response
  /\ result' = Returned(IF req.method = "HEAD" THEN HeadResponse(response) ELSE response)
  /\ via' = dispatched[Len(dispatched)]
  /\ pc' = "done"
  /\ UNCHANGED <<overlapVars, cfgVars, derivedVars, reqVars, localVars, logVars>>

Next ==
  \/ Start
  \/ Settle
  \/ Derive
  \/ MakeContext
  \/ Classify
  \/ Manifest
  \/ Dispatch
  \/ SingleFetch
  \/ DataHook
  \/ Resource
  \/ CriticalCss
  \/ DocumentQuery
  \/ RenderHtml
  \/ FirstRenderEnds
  \/ SecondRenderEnds
  \/ Finish

Spec == Init /\ [][Next]_vars

\* A step of a call of requestHandler that is under way: the code runs on, or
\* a promise that requestHandler awaits settles.
Handling == pc \notin {"idle", "done"} /\ Next

\* One `mode`, development, where every document request asks for the
\* critical CSS.
LiveInit == Init /\ mode = "development"

\* Every promise that requestHandler awaits settles: a call under way goes
\* on.
Live == LiveInit /\ [][Next]_vars /\ WF_vars(Handling)

\* ------------------------------------------------ overlapping requests

\* The test of line 106 left out: derive is called for every request.
AlwaysDerive(c) == TRUE

\* Line 106: one of routes, serverMode, staticHandler, errorHandler is not
\* set.
NeedsDerive(c) ==
  c.routes = 0 \/ c.serverMode = 0 \/ c.staticHandler = 0 \/ c.errorHandler = 0

\* Line 98 alone: _build is assigned and the other four variables are left
\* as they were.
OnlyBuildAssigned(c, d) == [c EXCEPT !.build = d]

\* Lines 98-112, which run without a suspension: _build is assigned, and
\* routes, serverMode, staticHandler and errorHandler are assigned from what
\* derive returned; d is the number of the derivation.
DerivedClosure(c, d) ==
  [build |-> d, routes |-> d, serverMode |-> d, staticHandler |-> d,
   errorHandler |-> d]

\* Line 97: requestHandler is called.  With a factory, the factory is called
\* and its result awaited (line 98).  With a static build, lines 98-112 run at
\* once: derive is called when the closure's variables are not set, and the
\* call goes on, reading them, to its first suspension point.
Arrive(r) ==
  /\ inflight[r].at = "idle"
  /\ arrived' = Append(arrived, r)
  /\ IF build.factory
     THEN /\ inflight' = [inflight EXCEPT ![r].at = "awaitBuild", ![r].calls = @ + 1]
          /\ UNCHANGED <<closure, made>>
     ELSE LET derives == NeedsDerive(closure)
              c       == IF derives THEN DerivedClosure(closure, Len(made) + 1)
                         ELSE closure
          IN /\ closure' = c
             /\ made' = IF derives THEN Append(made, StaticBuild) ELSE made
             /\ inflight' = [inflight EXCEPT
                               ![r].at = "running",
                               ![r].own = c.routes,
                               ![r].derives = IF derives THEN @ + 1 ELSE @,
                               ![r].observed = <<c>>]
  /\ UNCHANGED requestVars

\* Lines 98-105: the factory's build arrives; _build is assigned and the
\* other four variables are derived from it, and the call goes on, reading
\* them, to its first suspension point.
BuildResolves(r) ==
  /\ inflight[r].at = "awaitBuild"
  /\ \E b \in FactoryBuilds :
       LET d == Len(made) + 1
           c == DerivedClosure(closure, d)
       IN /\ closure' = c
          /\ made' = Append(made, b)
          /\ inflight' = [inflight EXCEPT
                            ![r].at = "running",
                            ![r].own = d,
                            ![r].derives = @ + 1,
                            ![r].observed = <<c>>]
  /\ UNCHANGED <<requestVars, arrived>>

\* Line 98: the factory throws, or its promise rejects, and requestHandler
\* rejects.
BuildRejects(r) ==
  /\ inflight[r].at = "awaitBuild"
  /\ inflight' = [inflight EXCEPT ![r].at = "rejected"]
  /\ UNCHANGED <<requestVars, closure, made, arrived>>

\* Lines 218-327: the call resumes from an await (of the manifest handler, a
\* strategy, the handleDataRequest hook, the critical-CSS hook, a loader
\* within a strategy) and reads the closure's variables as they are then:
\* _build at lines 253-283, serverMode at line 283, errorHandler within
\* handleError (line 122).
Resume(r) ==
  /\ inflight[r].at = "running"
  /\ Len(inflight[r].observed) <= MaxSuspensions
  /\ inflight' = [inflight EXCEPT ![r].observed = Append(@, closure)]
  /\ UNCHANGED <<requestVars, closure, made, arrived>>

\* Lines 145-338: requestHandler returns.
Complete(r) ==
  /\ inflight[r].at = "running"
  /\ inflight' = [inflight EXCEPT ![r].at = "returned"]
  /\ UNCHANGED <<requestVars, closure, made, arrived>>

\* The builds of the handlers whose requests overlap: a static build or a
\* factory, with nothing else that is optional.
OverlapBuilds ==
  { b \in Builds : b.ssr /\ ~b.middleware /\ ~b.handleDataRequest /\ ~b.getCriticalCss }

\* The mode is the same for every derivation of a handler (line 101, line
\* 107); one mode stands for all.
OverlapInit == Init /\ build \in OverlapBuilds /\ mode = "production"

OverlapNext ==
  \E r \in RequestIds :
    \/ Arrive(r)
    \/ BuildResolves(r)
    \/ BuildRejects(r)
    \/ Resume(r)
    \/ Complete(r)

\* One handler, made once by createRequestHandler, and the calls of it that
\* overlap.
Overlap == OverlapInit /\ [][OverlapNext]_vars

\* ====================================================================
\* The claims
\* ====================================================================

\* The strategies.
Strategies == {"manifest", "singleFetch", "resource", "document"}

\* requestHandler has returned a Response.
HasReturned == pc = "done" /\ result.kind = "response"

\* The return statements that end requestHandler before any strategy is
\* called: the build factory threw, the context provider could not be built,
\* the `.data` path is not prerendered while ssr is off, the critical-CSS hook
\* threw.
BeforeDispatch == {"factory", "configError", "ssr404", "criticalCss"}

\* C1: for every HEAD request, on every path through requestHandler, the
\* returned Response has an empty body, and its status and headers are those
\* of the Response that the handling produced.
C1_HeadResponseHasNoBody ==
  (HasReturned /\ req.method = "HEAD") =>
    /\ result.resp.body = NoBody
    /\ result.resp.status = produced.status
    /\ result.resp.headers = produced.headers

\* C2 as stated: every request is dispatched to exactly one strategy, never to
\* two and never to none, and the Response returned is the one the strategy
\* produced.
C2_ExactlyOneStrategy ==
  pc = "done" =>
    /\ Len(dispatched) = 1
    /\ result.kind = "response"
    /\ result.resp = strategyResponse

\* C2, amended: a request is dispatched to at most one strategy, and to none
\* exactly when requestHandler ends before the dispatch; when the strategy
\* returned a Response and requestHandler returns one, it is that Response,
\* save for the body of a HEAD request and for a `.data` request with a
\* handleDataRequest hook, which gets what the hook made of it.
C2_AtMostOneStrategy ==
  /\ Len(dispatched) <= 1
  /\ \A i \in 1..Len(dispatched) : dispatched[i] \in Strategies
  /\ pc = "done" => (dispatched = <<>> <=> via \in BeforeDispatch)
  /\ (HasReturned /\ dispatched # <<>> /\ strategyResponse # NoResponse) =>
       IF dispatched = <<"singleFetch">> /\ build.handleDataRequest
       THEN \/ result.resp = (IF req.method = "HEAD" THEN HeadResponse(response)
                              ELSE response)
            \/ /\ IsRedirectResponse(response)
               /\ result.resp = SingleFetchRedirect(response, req.method)
       ELSE result.resp = (IF req.method = "HEAD" /\ via # "manifest"
                           THEN HeadResponse(strategyResponse)
                           ELSE strategyResponse)

\* C2's case: a document request whose Response is the one that
\* handleDocumentRequest returned after a render.
C2_Witness ==
  /\ HasReturned
  /\ dispatched = <<"document">>
  /\ renders # <<>>
  /\ result.resp = strategyResponse

\* C3: the render function is called at most twice for a request, and a
\* second time only after its first call threw, whether renderHtml runs on the
\* context that staticHandler.query returned or as its unstable_respond
\* callback.
C3_RenderAtMostTwice ==
  /\ Len(renders) <= 2
  /\ \A i \in 1..Len(renders) : renders[i].pass = i
  /\ Len(renders) = 2 => Len(renderErrors) >= 1
  /\ Len(renderErrors) <= Len(renders)

\* C3's case: renderHtml ran as the unstable_respond callback and both calls
\* of the render function threw.
C3_Witness ==
  /\ pc = "done"
  /\ viaRespond
  /\ Len(renders) = 2
  /\ Len(renderErrors) = 2

\* The context with its errors sanitized for the server mode.
Sanitized(ctx, sm) == [ctx EXCEPT !.errors = SanitizeErrors(ctx.errors, sm)]

\* The text `sub` occurs in `text`.
Contains(text, sub) ==
  \E i \in 1..(Len(text) - Len(sub) + 1) : SubSeq(text, i, i + Len(sub) - 1) = sub

C5_DataRequestNeverRedirects ==
  (HasReturned /\ EndsWith(req.pathname, ".data")) =>
    /\ ~IsRedirectResponse(result.resp)
    /\ ~(result.resp.status \in 300..399 /\ HasHeader(result.resp.headers, "Location"))
    /\ dispatched = <<"singleFetch">> =>
         IF IsRedirectResponse(response)
              \/ (dataResult = "redirect" /\ response = strategyResponse)
         THEN /\ result.resp.status = SINGLE_FETCH_REDIRECT_STATUS
              /\ <<"Content-Type", "text/x-script">> \in result.resp.headers
         ELSE result.resp = (IF req.method = "HEAD" THEN HeadResponse(response)
                             ELSE response)

\* C5's case: the hook turned a data response into a 302 redirect and the
\* client got it repackaged.
C5_Witness ==
  /\ HasReturned
  /\ EndsWith(req.pathname, ".data")
  /\ build.handleDataRequest
  /\ dataResult = "data"
  /\ IsRedirectResponse(response)
  /\ result.resp.status = SINGLE_FETCH_REDIRECT_STATUS

\* handleManifestRequest has returned for the request.
ManifestReturned == dispatched = <<"manifest">> /\ strategyResponse # NoResponse

\* C6: handleManifestRequest tests the version first: a version that is not
\* the build's (or none at all) gets a 204 with X-Remix-Reload-Document: true,
\* with or without a `p`; then a query without `p` gets a 400 Invalid Request;
\* any other gets a 200 JSON with Cache-Control public, max-age=31536000,
\* immutable.
C6_ManifestStatusOrder ==
  ManifestReturned =>
    LET q == req.query
        r == strategyResponse
    IN /\ IF q.version # AssetVersion
          THEN /\ r.status = 204
               /\ <<"X-Remix-Reload-Document", "true">> \in r.headers
          ELSE IF q.p = <<>>
               THEN /\ r.status = 400
                    /\ r.body = TextBody(<<"Invalid Request">>)
               ELSE /\ r.status = 200
                    /\ r.body.kind = "json"
                    /\ <<"Cache-Control", "public, max-age=31536000, immutable">>
                         \in r.headers
       /\ HasReturned => result.resp = r

\* C6's case: a manifest request with neither a version nor a `p` got the
\* 204.
C6_Witness ==
  /\ HasReturned
  /\ ManifestReturned
  /\ req.query.version = NoVersion
  /\ req.query.p = <<>>
  /\ result.resp.status = 204

\* The non-empty ancestor prefixes of a path, itself included: the path,
\* given its leading slash, cut after one of its segments.
AncestorPrefixes(path) ==
  LET lead == IF StartsWith(path, "/") THEN path ELSE <<"/">> \o path
  IN { SubSeq(lead, 1, k) : k \in { j \in 1..Len(lead) :
                                      \/ j = Len(lead)
                                      \/ j > 1 /\ lead[j + 1] = "/" } }

\* The route ids that matchServerRoutes gives for a path.
MatchedIds(path) ==
  LET matches == MatchServerRoutes(path, BuildBasename)
  IN { matches[j] : j \in 1..Len(matches) }

\* C7: the body of a 200 manifest response maps exactly the route ids that
\* are matched for an ancestor prefix of a requested path and have an entry in
\* build.assets.routes; a path without a leading slash counts as with one.
C7_ManifestPatches ==
  (ManifestReturned /\ req.query.version = AssetVersion /\ req.query.p # <<>>) =>
    /\ strategyResponse.body.kind = "json"
    /\ strategyResponse.body.ids =
         { id \in AssetRouteIds :
             \E k \in 1..Len(req.query.p) :
               \E q \in AncestorPrefixes(req.query.p[k]) : id \in MatchedIds(q) }

\* C7's case: `/a/b` and `r` were asked for; the index route under `/a` and
\* the route of `/r` are patched, the route of `/a/b`, which has no entry in
\* the assets, is not.
C7_Witness ==
  /\ HasReturned
  /\ ManifestReturned
  /\ req.query.p = << <<"/", "a", "/", "b">>, <<"r">> >>
  /\ {"a", "a_index", "r"} \subseteq result.resp.body.ids
  /\ "ab" \notin result.resp.body.ids

\* The request got as far as the test of the prerender list.
PastContext == pc = "done" /\ via \notin {"factory", "configError"}

\* The decoded normalized path of the request.
DecodedPath == DecodeURI(NormalizedPath(req.pathname, BuildBasename))

\* The path of the request is in build.prerender, as it is or with a
\* trailing slash.
Prerendered ==
  \/ DecodedPath \in build.prerender
  \/ Append(DecodedPath, "/") \in build.prerender

\* Every call of the render function was made in SPA mode.
RenderedInSpaMode ==
  /\ isSpaMode
  /\ \A i \in 1..Len(renders) : renders[i].isSpaMode

\* C8 as stated: with ssr off, an empty prerender list puts every document
\* request in SPA mode, and every `.data` request for a path that is not in
\* the prerender list gets a 404 with no route handler run, with an empty
\* list too.
C8_DataRequestRefused ==
  (PastContext /\ ~build.ssr) =>
    /\ (build.prerender = {} /\ dispatched = <<"document">>) => RenderedInSpaMode
    /\ (EndsWith(req.pathname, ".data") /\ ~Prerendered) =>
         /\ result.kind = "response"
         /\ result.resp.status = 404
         /\ dispatched = <<>>

\* C8, amended: with ssr off, an empty prerender list puts every request in
\* SPA mode, a `.data` request as well, which goes to the single-fetch
\* strategy; with a prerender list that is not empty, a `.data` request gets
\* the 404, with no strategy run, exactly when its path is not in the list in
\* either form, and a document request for such a path is rendered in SPA
\* mode.  With ssr on no request is refused.
C8_DataRequestRefusedIfListed ==
  PastContext =>
    /\ (~build.ssr /\ build.prerender = {}) =>
         /\ RenderedInSpaMode
         /\ via # "ssr404"
         /\ EndsWith(req.pathname, ".data") => dispatched = <<"singleFetch">>
    /\ (~build.ssr /\ build.prerender # {} /\ EndsWith(req.pathname, ".data")) =>
         (via = "ssr404" <=> ~Prerendered)
    /\ (~build.ssr /\ build.prerender # {} /\ ~EndsWith(req.pathname, ".data")
          /\ ~Prerendered) => RenderedInSpaMode
    /\ via = "ssr404" =>
         /\ ~build.ssr
         /\ EndsWith(req.pathname, ".data")
         /\ result.kind = "response"
         /\ result.resp.status = 404
         /\ result.resp.body = TextBody(<<"Not Found">>)
         /\ dispatched = <<>>
         /\ renders = <<>>

\* C8's case: ssr is off, the list has paths, and the `.data` request for
\* `/x`, which is not among them, got the 404 before any strategy ran.
C8_Witness ==
  /\ HasReturned
  /\ ~build.ssr
  /\ build.prerender # {}
  /\ req.pathname = <<"/", "x", ".data">>
  /\ ~Prerendered
  /\ via = "ssr404"
  /\ result.resp.status = 404
  /\ dispatched = <<>>

ReportsOf(site, id) ==
  { i \in 1..Len(reported) : reported[i].site = site /\ reported[i].id = id }

\* An error that has to be reported: no Response, and no route error without
\* a cause.
Reportable(err) ==
  /\ ~IsResponse(err)
  /\ IsRouteErrorResponse(err) => err.cause

\* C10: over one request every error that occurs and has to be reported
\* (configuration error, error captured in the context, value thrown by the
\* query, by the first or the second render, by a resource route, by the
\* manifest handler) makes exactly one call of errorHandler; no error that
\* occurs makes two, the error of the first render that is put into the
\* second render's context included, and no call is made without an error.
C10_ReportedExactlyOnce ==
  /\ \A i, j \in 1..Len(occurred) :
       (occurred[i].site = occurred[j].site /\ occurred[i].id = occurred[j].id) => i = j
  /\ \A i \in 1..Len(occurred) :
       LET n == Cardinality(ReportsOf(occurred[i].site, occurred[i].id))
       IN /\ n <= 1
          /\ Reportable(occurred[i].err) => n = 1
  /\ \A i \in 1..Len(reported) :
       \E j \in 1..Len(occurred) :
         /\ occurred[j].site = reported[i].site
         /\ occurred[j].id = reported[i].id
         /\ \/ reported[i].err = occurred[j].err
            \/ /\ occurred[j].err = AnError(QueryRouteSentinel)
               /\ reported[i].err = HandlerContractError
  /\ Len(reported) <= Len(occurred)

\* C10's case: a route error with a cause and an error were captured in the
\* context, both renders threw, and errorHandler was called four times, once
\* for each.
C10_Witness ==
  /\ pc = "done"
  /\ Len(renderErrors) = 2
  /\ Len(occurred) = 4
  /\ Len(reported) = 4
  /\ \E i \in 1..Len(occurred) :
       occurred[i].site = "context" /\ IsRouteErrorResponse(occurred[i].err)

\* errorHandler was called for the i-th error that occurred.
WasReported(i) == ReportsOf(occurred[i].site, occurred[i].id) # {}

\* The places of the document, resource and render-failure paths where a
\* value is thrown or captured.
HandlerSites == {"context", "query", "render1", "render2", "resource"}

\* C11 as stated: in the document, resource and render-failure paths a
\* thrown or captured value is passed to errorHandler unless it is a Response
\* or a route error without a cause, and a value of these two kinds is never
\* reported by any handler.
C11_UniformReportingPolicy ==
  \A i \in 1..Len(occurred) :
    occurred[i].site \in HandlerSites =>
      (WasReported(i) <=> Reportable(occurred[i].err))

\* C11, amended: in all three paths a value that is neither a Response nor a
\* route error without a cause is passed to errorHandler.  Of the other two
\* kinds, the errors captured in the context are not reported; what the
\* render function or the query throws is reported whatever it is, a Response
\* included; what a resource route throws is reported unless it is a
\* Response, a route error without a cause included.
C11_ReportingPolicyBySite ==
  \A i \in 1..Len(occurred) :
    LET o == occurred[i]
    IN /\ Reportable(o.err) => WasReported(i)
       /\ o.site = "context" => (WasReported(i) <=> Reportable(o.err))
       /\ o.site \in {"query", "render1", "render2"} => WasReported(i)
       /\ o.site = "resource" => (WasReported(i) <=> ~IsResponse(o.err))

\* C11's case: a resource route threw a route error without a cause, and
\* errorHandler was called with it.
C11_Witness ==
  /\ pc = "done"
  /\ \E i \in 1..Len(occurred) :
       /\ occurred[i].site = "resource"
       /\ IsRouteErrorResponse(occurred[i].err)
       /\ ~occurred[i].err.cause
       /\ \E j \in 1..Len(reported) : reported[j] = occurred[i]

\* The last-resort responses of a request, each with the error it was built
\* for: for the configuration error, for the second throw of the render
\* function, for what a resource route threw that is neither a Response nor a
\* route error.
LastResorts ==
  (IF pc = "done" /\ via = "configError"
   THEN {[resp |-> produced, error |-> ConfigurationError]} ELSE {}) \cup
  (IF Len(renderErrors) = 2 /\ pc \in {"finish", "done"}
   THEN {[resp |-> strategyResponse, error |-> renderErrors[2]]} ELSE {}) \cup
  { [resp |-> strategyResponse,
     error |-> IF occurred[i].err = AnError(QueryRouteSentinel)
               THEN HandlerContractError ELSE occurred[i].err] :
      i \in { j \in 1..Len(occurred) :
                /\ occurred[j].site = "resource"
                /\ ~IsResponse(occurred[j].err)
                /\ ~IsRouteErrorResponse(occurred[j].err) } }

\* C12: a last-resort response has status 500 and Content-Type text/plain;
\* in production, which an absent `mode` and a `mode` that is no server mode
\* come to as well, its body is `Unexpected Server Error` and nothing else; in
\* development and test the body has String(error) too.
C12_LastResortBody ==
  /\ serverMode # "unset" =>
       serverMode = (IF mode \in {"development", "test"} THEN mode ELSE "production")
  /\ \A l \in LastResorts :
       /\ l.resp.status = 500
       /\ {h \in l.resp.headers : h[1] = "Content-Type"} = {<<"Content-Type", "text/plain">>}
       /\ l.resp.body.kind = "text"
       /\ IF serverMode = "production"
          THEN l.resp.body.text = <<"Unexpected Server Error">>
          ELSE /\ serverMode \in {"development", "test"}
               /\ SubSeq(l.resp.body.text, 1, 1) = <<"Unexpected Server Error">>
               /\ Contains(l.resp.body.text, StringOf(l.error))

\* C12's case: the mode is no server mode, the render function threw twice
\* and the client got the bare 500.
C12_Witness ==
  /\ HasReturned
  /\ mode = "staging"
  /\ req.method = "GET"
  /\ Len(renderErrors) = 2
  /\ result.resp.status = 500
  /\ result.resp.body = TextBody(<<"Unexpected Server Error">>)

\* The calls of requestHandler that have been made.
Called == { r \in RequestIds : inflight[r].at # "idle" }

\* The calls of requestHandler that are past line 112.
PastDerive == { r \in RequestIds : inflight[r].at \in {"running", "returned"} }

\* The five variables of the closure were set by one and the same
\* derivation.
FromOneDerivation(c) ==
  /\ c.build # 0
  /\ c.routes = c.build
  /\ c.serverMode = c.build
  /\ c.staticHandler = c.build
  /\ c.errorHandler = c.build

\* C13: with a static build derive is executed once, on the first request,
\* and never again; with a factory the factory is called once for every
\* request and derive is executed once for every request that gets past line
\* 98 (none for a request whose factory call throws); no request reads
\* routes, serverMode, staticHandler or errorHandler before a derivation has
\* set them.  The requests may overlap.
C13_DerivedOnceOrPerRequest ==
  /\ ~build.factory =>
       /\ \A r \in RequestIds : inflight[r].calls = 0
       /\ Len(made) = (IF arrived = <<>> THEN 0 ELSE 1)
       /\ \A r \in Called :
            inflight[r].derives = (IF r = arrived[1] THEN 1 ELSE 0)
  /\ build.factory =>
       /\ \A r \in Called : inflight[r].calls = 1
       /\ \A r \in RequestIds :
            inflight[r].derives = (IF r \in PastDerive THEN 1 ELSE 0)
       /\ Len(made) = Cardinality(PastDerive)
       /\ \A r1, r2 \in PastDerive : inflight[r1].own = inflight[r2].own => r1 = r2
  /\ \A r \in PastDerive :
       /\ inflight[r].observed # <<>>
       /\ inflight[r].own \in 1..Len(made)
       /\ \A i \in 1..Len(inflight[r].observed) :
            LET c == inflight[r].observed[i]
            IN c.routes # 0 /\ c.serverMode # 0 /\ c.staticHandler # 0
               /\ c.errorHandler # 0

\* C13's case: with a static build the second request overlaps the first,
\* has resumed from a suspension, and no derivation was made for it.
C13_Witness ==
  /\ ~build.factory
  /\ Len(arrived) = 2
  /\ inflight[arrived[1]].at = "running"
  /\ inflight[arrived[2]].at = "running"
  /\ Len(inflight[arrived[2]].observed) >= 2
  /\ inflight[arrived[2]].derives = 0
  /\ Len(made) = 1

\* C14: with a factory and requests that overlap, whenever a request is
\* suspended, and whenever one reads them, _build, routes, serverMode,
\* staticHandler and errorHandler come from one and the same derivation.
C14_NoTornDerivation ==
  build.factory =>
    /\ made # <<>> => FromOneDerivation(closure)
    /\ \A r \in RequestIds :
         \A i \in 1..Len(inflight[r].observed) :
           FromOneDerivation(inflight[r].observed[i])

\* C14's case: two requests overlap, each with a build of its own from the
\* factory, and the first, resumed after the second's derivation, reads the
\* five variables, all from that derivation.
C14_Witness ==
  /\ build.factory
  /\ Len(made) = 2
  /\ made[1] # made[2]
  /\ \E r \in RequestIds :
       /\ inflight[r].own = 1
       /\ inflight[r].at = "running"
       /\ Len(inflight[r].observed) >= 2
       /\ inflight[r].observed[2].build = 2
       /\ FromOneDerivation(inflight[r].observed[2])

\* C15: with a factory and two requests that overlap, what a request reads
\* in _build, serverMode and errorHandler after it resumed from a suspension
\* is what its own derivation obtained (serverMode comes from `mode` alone
\* and is the same in every derivation of a handler).
C15_OwnDerivationSeen ==
  build.factory =>
    \A r \in PastDerive :
      \A i \in 1..Len(inflight[r].observed) :
        LET c == inflight[r].observed[i]
        IN /\ made[c.build] = made[inflight[r].own]
           /\ made[c.errorHandler] = made[inflight[r].own]
           /\ c.serverMode # 0

\* The request got as far as the test for the manifest path.
PastClassify == pc = "done" /\ via \notin {"factory", "configError", "ssr404"}

\* The manifest path of the build.
ManifestUrl == GetManifestPath(ManifestPathSetting, BuildBasename)

\* C16 as stated: the manifest strategy is selected exactly when the
\* normalized path (basename, `.data` suffix and trailing slash handled) is
\* the manifest path, so also for the manifest path with a trailing slash or
\* a `.data` suffix.
C16_ManifestByNormalizedPath ==
  PastClassify =>
    (dispatched = <<"manifest">>
       <=> NormalizedPath(req.pathname, BuildBasename) = ManifestUrl)

\* C16, amended: the manifest strategy is selected exactly when the path of
\* the URL, as it came, is the manifest path; the manifest path with a
\* trailing slash is handled as a document or resource request for the
\* normalized path, and the manifest path with a `.data` suffix as a
\* single-fetch request.
C16_ManifestByUrlPath ==
  PastClassify =>
    /\ dispatched = <<"manifest">> <=> req.pathname = ManifestUrl
    /\ req.pathname = Append(ManifestUrl, "/") =>
         /\ NormalizedPath(req.pathname, BuildBasename) = ManifestUrl
         /\ \/ dispatched \in {<<"document">>, <<"resource">>}
            \/ via = "criticalCss"
    /\ req.pathname = Append(ManifestUrl, ".data") =>
         /\ NormalizedPath(req.pathname, BuildBasename) = ManifestUrl
         /\ dispatched = <<"singleFetch">>

\* C16's case: the manifest path with a trailing slash was requested; its
\* normalized path is the manifest path, and the document strategy served it.
C16_Witness ==
  /\ HasReturned
  /\ req.pathname = Append(ManifestUrl, "/")
  /\ normalizedPath = ManifestUrl
  /\ dispatched = <<"document">>

\* The matches of the request's normalized path.
RequestMatches == MatchServerRoutes(NormalizedPath(req.pathname, BuildBasename), BuildBasename)

\* C17: a request that is neither a manifest request nor a `.data` request
\* goes to the resource strategy exactly when SPA mode is off, there is a
\* match, and the deepest match's module has neither a default component nor
\* an ErrorBoundary; otherwise it goes to the document branch (the
\* critical-CSS hook first, where there is one).  queryRoute gets the id of
\* the deepest match.
C17_ResourceOrDocument ==
  (PastClassify /\ req.pathname # ManifestUrl /\ ~EndsWith(req.pathname, ".data")) =>
    LET matches == RequestMatches
        deepest == matches[Len(matches)]
    IN IF /\ ~isSpaMode
          /\ Len(matches) >= 1
          /\ ~RouteTable[deepest].hasDefault
          /\ ~RouteTable[deepest].hasErrorBoundary
       THEN /\ dispatched = <<"resource">>
            /\ routeId = deepest
            /\ renders = <<>>
       ELSE /\ dispatched = <<"document">> \/ (dispatched = <<>> /\ via = "criticalCss")
            /\ routeId = NoRoute
            /\ queryRouteResult = NoValue

\* C17's case: SPA mode is off and the deepest match has an ErrorBoundary
\* and no default component; the document strategy rendered.
C17_Witness ==
  /\ HasReturned
  /\ req.pathname = <<"/", "e">>
  /\ ~isSpaMode
  /\ RequestMatches = <<"root", "e">>
  /\ dispatched = <<"document">>
  /\ renders # <<>>

\* The load context has been made, or could not be: the call is past lines
\* 129-150.
ContextSettled == pc \notin {"idle", "derive", "context"} /\ via # "factory"

\* C18: with build.future.unstable_middleware on, an initialContext that the
\* provider's constructor throws on has errorHandler called exactly once, with
\* the configuration error, and has the last-resort 500 returned with no route
\* matched and no strategy called; a null initialContext gives an empty
\* provider and no error; with middleware off the load context is the mapping
\* that was supplied, or an empty one, and no provider is constructed.
C18_LoadContext ==
  ContextSettled =>
    IF build.middleware
    THEN CASE initialContext = "invalid" ->
                /\ pc = "done"
                /\ via = "configError"
                /\ occurred = <<Occurrence("config", "", ConfigurationError)>>
                /\ reported = <<Occurrence("config", "", ConfigurationError)>>
                /\ result = Returned(ReturnLastResortErrorResponse(ConfigurationError,
                                                                  serverMode))
                /\ result.resp.status = 500
                /\ loadContext = "unset"
                /\ normalizedPath = NullPath
                /\ routeId = NoRoute
                /\ dispatched = <<>>
                /\ renders = <<>>
           [] initialContext = "null" ->
                /\ loadContext = "empty provider"
                /\ \A i \in 1..Len(occurred) : occurred[i].site # "config"
                /\ via # "configError"
           [] OTHER ->
                /\ initialContext = "valid"
                /\ loadContext = "provider of initialContext"
                /\ \A i \in 1..Len(occurred) : occurred[i].site # "config"
                /\ via # "configError"
    ELSE /\ loadContext = (IF initialContext = "null" THEN "empty mapping"
                           ELSE "initialContext")
         /\ initialContext \in {"null", "valid"}
         /\ \A i \in 1..Len(occurred) : occurred[i].site # "config"
         /\ via # "configError"

\* C18's case: middleware is on, the provider could not be constructed from
\* the initialContext, the error handler was called and the 500 returned.
C18_Witness ==
  /\ HasReturned
  /\ build.middleware
  /\ initialContext = "invalid"
  /\ via = "configError"
  /\ Len(reported) = 1
  /\ result.resp.status = 500

\* The calls of errorHandler that handleResourceRequest made.
ResourceReports == { i \in 1..Len(reported) : reported[i].site = "resource" }

\* r is the last-resort 500 for error: text/plain, and the error's text in it
\* outside production only.
IsLastResortFor(r, error) ==
  /\ r.status = 500
  /\ <<"Content-Type", "text/plain">> \in r.headers
  /\ r.body.kind = "text"
  /\ SubSeq(r.body.text, 1, 1) = <<"Unexpected Server Error">>
  /\ Contains(r.body.text, StringOf(error)) <=> serverMode # "production"

\* C19: of what staticHandler.queryRoute throws in handleResourceRequest, a
\* Response is returned itself with X-Remix-Catch: yes added and errorHandler
\* is not called; a route error response is reported once and returned as a
\* JSON response with its own status and statusText and X-Remix-Error: yes;
\* the Error `Expected a response from queryRoute` is replaced by the
\* handler-contract error, which is reported once and gives the last-resort
\* 500; any other value is reported once and gives the last-resort 500.
C19_ResourceThrows ==
  \A i \in 1..Len(occurred) :
    occurred[i].site = "resource" =>
      LET e == occurred[i].err
          r == strategyResponse
      IN  IF IsResponse(e)
          THEN /\ ResourceReports = {}
               /\ r.status = e.resp.status
               /\ r.statusText = e.resp.statusText
               /\ r.body = e.resp.body
               /\ r.headers = {h \in e.resp.headers : h[1] # "X-Remix-Catch"}
                                 \cup {<<"X-Remix-Catch", "yes">>}
          ELSE /\ Cardinality(ResourceReports) = 1
               /\ IF IsRouteErrorResponse(e)
                  THEN /\ \A j \in ResourceReports : reported[j].err = e
                       /\ r.status = e.status
                       /\ r.statusText = e.statusText
                       /\ r.body.kind = "json"
                       /\ <<"X-Remix-Error", "yes">> \in r.headers
                       /\ <<"Content-Type", "application/json">> \in r.headers
                  ELSE IF e = AnError(QueryRouteSentinel)
                  THEN /\ \A j \in ResourceReports : reported[j].err = HandlerContractError
                       /\ HandlerContractError # e
                       /\ IsLastResortFor(r, HandlerContractError)
                  ELSE /\ \A j \in ResourceReports : reported[j].err = e
                       /\ IsLastResortFor(r, e)

\* C19's case: the resource route threw a route error response, which was
\* reported and answered with its own status.
C19_Witness ==
  /\ HasReturned
  /\ dispatched = <<"resource">>
  /\ \E i \in 1..Len(occurred) :
       /\ occurred[i].site = "resource"
       /\ IsRouteErrorResponse(occurred[i].err)
       /\ occurred[i].err.status = 405
  /\ Cardinality(ResourceReports) = 1
  /\ req.method = "GET"
  /\ result.resp.status = 405
  /\ <<"X-Remix-Error", "yes">> \in result.resp.headers

\* The calls of errorHandler that the catch of handleDocumentRequest made.
QueryReports == { i \in 1..Len(reported) : reported[i].site = "query" }

\* C20: when staticHandler.query throws in handleDocumentRequest, the thrown
\* value is reported to errorHandler exactly once, the response has status 500
\* and an empty body, and the render function is not called.
C20_QueryThrows ==
  \A i \in 1..Len(occurred) :
    occurred[i].site = "query" =>
      /\ Cardinality(QueryReports) = 1
      /\ \A j \in QueryReports : reported[j].err = occurred[i].err
      /\ Len(reported) = 1
      /\ strategyResponse.status = 500
      /\ strategyResponse.body = NoBody
      /\ renders = <<>>
      /\ renderErrors = <<>>
      /\ pc = "done" => /\ result.kind = "response"
                        /\ result.resp.status = 500
                        /\ result.resp.body = NoBody

\* C20's case: a document request whose query threw, answered with the bare
\* 500 after one call of errorHandler.
C20_Witness ==
  /\ HasReturned
  /\ req.method = "GET"
  /\ dispatched = <<"document">>
  /\ \E i \in 1..Len(occurred) : occurred[i].site = "query"
  /\ Cardinality(QueryReports) = 1
  /\ result.resp.status = 500
  /\ result.resp.body = NoBody

\* The StaticHandlerContext that renderHtml was called with: the context of
\* the first render when there was one, the context as it is otherwise.
RenderHtmlContext == IF renders = <<>> THEN context ELSE renders[1].context

\* renderHtml has been called with a context, no Response, getDocumentHeaders
\* has returned the headers, and renderHtml has gone past its test of line 470.
PastNoBodyTest ==
  /\ dispatched = <<"document">>
  /\ pc \in {"render1", "render2", "finish", "done"}
  /\ via # "getDocumentHeaders"
  /\ RenderHtmlContext # NoContext
  /\ RenderHtmlContext.response = NoResponse

\* C21: in the document path, when the statusCode of the StaticHandlerContext
\* is one of SERVER_NO_BODY_STATUS_CODES, the response has that status, the
\* document headers and no body, the render function is not called, and no
\* second render pass starts.
C21_NoBodyStatus ==
  (PastNoBodyTest /\ RenderHtmlContext.statusCode \in SERVER_NO_BODY_STATUS_CODES) =>
    /\ pc \in {"finish", "done"}
    /\ renders = <<>>
    /\ renderErrors = <<>>
    /\ reported = <<>>
    /\ strategyResponse.status = RenderHtmlContext.statusCode
    /\ strategyResponse.headers = GetDocumentHeaders(RenderHtmlContext)
    /\ strategyResponse.headers = headers
    /\ strategyResponse.body = NoBody
    /\ pc = "done" => /\ result.kind = "response"
                      /\ result.resp.status = RenderHtmlContext.statusCode
                      /\ result.resp.headers = headers
                      /\ result.resp.body = NoBody

\* C21's case: the query gave a context with status 204, and the document
\* request was answered with a 204 that has the document headers and no body.
C21_Witness ==
  /\ HasReturned
  /\ req.method = "GET"
  /\ dispatched = <<"document">>
  /\ context.response = NoResponse
  /\ context.statusCode = 204
  /\ renders = <<>>
  /\ result.resp.status = 204
  /\ result.resp.headers # {}
  /\ result.resp.body = NoBody

\* The headers of a set other than Content-Type.
OtherThanContentType(hs) == {h \in hs : h[1] # "Content-Type"}

\* C22: for a `.data` request singleFetchLoaders runs exactly when the method
\* is GET and singleFetchAction for every other method, HEAD included; when
\* what the handleDataRequest hook returns is a redirect, the encoded redirect
\* is wrapped under SingleFetchRedirectSymbol exactly when the method is GET,
\* and the repackaged response has the redirect's headers but for
\* Content-Type, which is text/x-script.
C22_SingleFetchByMethod ==
  /\ dispatched = <<"singleFetch">> =>
       LET strategy == strategyResponse.body.text[2]
       IN /\ strategy \in {"loaders", "action"}
          /\ strategy = "loaders" <=> req.method = "GET"
          /\ strategy = "action" <=> req.method # "GET"
  /\ (HasReturned /\ dispatched = <<"singleFetch">> /\ build.handleDataRequest) =>
       (via = "singleFetchRedirect" <=> IsRedirectResponse(response))
  /\ (HasReturned /\ via = "singleFetchRedirect") =>
       LET wrapper == result.resp.body.text[2]
       IN /\ build.handleDataRequest
          /\ wrapper \in {"SingleFetchRedirectSymbol", "bare"}
          /\ wrapper = "SingleFetchRedirectSymbol" <=> req.method = "GET"
          /\ OtherThanContentType(result.resp.headers) = OtherThanContentType(response.headers)
          /\ result.resp.headers \ OtherThanContentType(result.resp.headers)
               = {<<"Content-Type", "text/x-script">>}

\* C22's case: a HEAD request for a `.data` path ran the action, the hook
\* answered with a redirect that has a Content-Type of its own, and the
\* redirect went out unwrapped.
C22_Witness ==
  /\ HasReturned
  /\ req.method = "HEAD"
  /\ via = "singleFetchRedirect"
  /\ strategyResponse.body.text[2] = "action"
  /\ <<"Content-Type", "text/html">> \in response.headers
  /\ result.resp.body.text[2] = "bare"
  /\ <<"Location", "/login">> \in result.resp.headers

\* The places where a collaborator throws outside every try block of
\* requestHandler and of what it calls: the build factory (line 98), the
\* handleDataRequest hook (line 254), the critical-CSS hook (lines 310, 315),
\* and getDocumentHeaders (line 467) and getStaticContextFromError (line 555)
\* when handleDocumentRequest returns the promise of renderHtml (line 455).
Uncaught ==
  {"factory", "dataHook", "criticalCss", "getDocumentHeaders",
   "getStaticContextFromError"}

C23_Outcome ==
  pc = "done" =>
    /\ result.kind \in {"response", "rejected"}
    /\ result.kind = "rejected" <=> via \in Uncaught
    /\ result.kind = "rejected" => result.resp = NoResponse /\ result.err # NoError
    /\ via = "configError" => result.kind = "response" /\ result.resp.status = 500
    /\ (\E i \in 1..Len(occurred) : occurred[i].site \in {"query", "render2"}) =>
         result.kind = "response" /\ result.resp.status = 500
    /\ (Len(renderErrors) = 1 /\ via \notin Uncaught) =>
         /\ result.kind = "response"
         /\ Len(renders) = 2
         /\ result.resp.status = renders[2].statusCode

=============================================================================
